---------------------------- MODULE Spec2Model ----------------------------
(***************************************************************************)
(* A state-machine model of the Store of Ayub-Begimkulov/store:            *)
(* src/src/store.ts and its dependency-tracking revision                   *)
(* src/unnamed/part_001 (same commit/dispatch protocol, plus per-cell      *)
(* dependency sets and memoized getters).                                  *)
(*                                                                         *)
(* JavaScript runs the store on one thread with a re-entrant call stack:   *)
(* user code (external code, mutation handlers, action handlers and        *)
(* subscriber callbacks) may call back into the store at any point.  The   *)
(* model keeps that call stack explicitly; the user code on top of the     *)
(* stack chooses its next step nondeterministically.                       *)
(***************************************************************************)
EXTENDS Integers, Sequences, FiniteSets, TLC

\* ------------------------------------------------------------------ bounds
MaxVal == 2
MaxNum == 2
MaxDepth == 2
MaxCalls == 3
MaxNest == 2
MaxHandles == 2

\* --------------------------------------------------------------- JS values
\* A JavaScript value, flattened into one record shape:
\*   t  : the result of typeof            n, s : number / string content
\*   ft, fn, fs : the value of the object's `type` field ("none" = absent)
\*   k  : "null", "plain", "promise" (callable then and catch),
\*        "thenable" (callable then only), "" for primitives
\*   id : object identity of a promise/thenable (0 = created by the store)
\*   rt : typeof of the value a promise/thenable settles with
JSV(t, n, s, ft, fn, fs, k, id, rt) ==
  [t |-> t, n |-> n, s |-> s, ft |-> ft, fn |-> fn, fs |-> fs,
   k |-> k, id |-> id, rt |-> rt]

Undef == JSV("undefined", 0, "", "none", 0, "", "", 0, "")
Null == JSV("object", 0, "", "none", 0, "", "null", 0, "")
Num(n) == JSV("number", n, "", "none", 0, "", "", 0, "")
Str(s) == JSV("string", 0, s, "none", 0, "", "", 0, "")
\* { amount: a }
ObjNoType(a) == JSV("object", a, "", "none", 0, "", "plain", 0, "")
\* { type: <string s>, amount: a }
ObjStrType(s, a) == JSV("object", a, "", "string", 0, s, "plain", 0, "")
\* { type: <number m>, amount: a }
ObjNumType(m, a) == JSV("object", a, "", "number", m, "", "plain", 0, "")
\* a promise / a then-only thenable with identity id that settles with v
PromiseOf(id, v) == JSV("object", v.n, v.s, "none", 0, "", "promise", id, v.t)
ThenableOf(id, v) == JSV("object", v.n, v.s, "none", 0, "", "thenable", id, v.t)

\* ------------------------------------------------------------ src/utils.ts
isObject(val) == val.t = "object" /\ val.k # "null"

isPromise(val) == isObject(val) /\ val.k = "promise"

\* Promise.resolve(res) as used by registerAction: a value with a callable
\* `then` is adopted (the new promise settles as the thenable does), any
\* other value becomes the resolution value of a new promise.
PromiseResolve(res) ==
  IF isObject(res) /\ res.k \in {"promise", "thenable"}
    THEN JSV("object", res.n, res.s, "none", 0, "", "promise", 0, res.rt)
    ELSE JSV("object", res.n, res.s, "none", 0, "", "promise", 0, res.t)

\* (variant: the copy comes out empty)
setFromForeachable_Empty(val) == <<>>

\* setFromForeachable(val): a new Set with the elements of val, in val's
\* iteration (insertion) order
setFromForeachable(val) == val

\* ------------------------------------------------------------ toObjectStyle
\* JavaScript truthiness of val.type
TruthyType(val) ==
  \/ val.ft = "string" /\ val.fs # ""
  \/ val.ft = "number" /\ val.fn # 0

isPayload(val) == isObject(val) /\ TruthyType(val)

\* the value of val.type
TypeField(val) ==
  CASE val.ft = "string" -> Str(val.fs)
    [] val.ft = "number" -> Num(val.fn)
    [] OTHER -> Undef

\* (variant: the typeof check is missing)
toObjectStyle_NoCheck(notProduction, _type, _payload) ==
  LET type == IF isPayload(_type) THEN TypeField(_type) ELSE _type
      payload == IF isPayload(_type) THEN _type ELSE _payload
  IN [type |-> type, payload |-> payload, throws |-> FALSE]

\* type, payload as chosen by toObjectStyle, and whether it throws
toObjectStyle(notProduction, _type, _payload) ==
  LET type == IF isPayload(_type) THEN TypeField(_type) ELSE _type
      payload == IF isPayload(_type) THEN _type ELSE _payload
  IN [type |-> type, payload |-> payload,
      throws |-> notProduction /\ type.t # "string"]

\* property-key coercion of `type` in this._mutations[type]
DigitStr(n) == CASE n = 0 -> "0" [] n = 1 -> "1" [] n = 2 -> "2" [] OTHER -> "3"

PropertyKey(type) ==
  CASE type.t = "string" -> type.s
    [] type.t = "undefined" -> "undefined"
    [] type.t = "number" -> DigitStr(type.n)
    [] type.k = "null" -> "null"
    [] OTHER -> "[object Object]"


\* ------------------------------------------------------------ configuration
\* the store of the test suite: state {a, b}, the mutations and actions of
\* store.spec.ts plus handlers whose body is arbitrary user code
Cells == {"a", "b"}
Getters == {"state", "cond", "chain"}
Subs == {"s1", "s2"}

\* cell contents: a number 0..MaxVal, NaN, or a string made by `+=`
NaNVal == -1
StrVal == -2
CellVals == 0..MaxVal

\* own keys of store._mutations after construction, and each handler's body
MutationNames == {"TEST", "TESTOBJ", "undefined", "", "FREE"}

MutationBody(name) ==
  CASE name \in {"TEST", "undefined"} -> "addN"
    [] name \in {"TESTOBJ", ""} -> "addAmount"
    [] OTHER -> "free"

\* own keys of store._actions after construction (bodies are user code)
ActionNames == {"TEST", "undefined", "two"}

\* callable properties every plain object inherits from Object.prototype
\* that return normally when called as a bare function
InheritedNames == {"toString", "constructor"}

\* this._mutations[type] / this._actions[type]
LookUp(own, key) ==
  IF key \in own THEN "own"
  ELSE IF key \in InheritedNames THEN "inherited" ELSE "undefined"

\* the first and second argument of commit and dispatch: every shape that
\* toObjectStyle tells apart
TypeArgs ==
  {Str(s) : s \in MutationNames \cup {"nope", "toString"}}
    \cup {Undef, Null, Num(1), ObjNoType(1), ObjNumType(1, 1), ObjNumType(0, 1)}
    \cup {ObjStrType(s, n) : s \in {"TEST", "TESTOBJ", "", "FREE", "nope"},
                            n \in 1..MaxNum}
PayloadArgs == {Undef} \cup {Num(n) : n \in 1..MaxNum}

\* the calls made while the store's protocol is explored
ProtoTypes == {Str("TEST"), Str("FREE"), Str("nope"), Undef}
ProtoPayloads == {Num(1)}

\* what an action handler may return
ReturnVals ==
  {Undef, Num(1), PromiseOf(1, Num(1)), PromiseOf(2, Undef),
   ThenableOf(3, Num(1))}

\* ------------------------------------------------------------------- state
VARIABLES
  strict,        \* Store.strict
  notProduction, \* NOT_PRODUCTION
  state,         \* currentValue of every cell of the state tree
  deps,          \* per cell: the getters whose invalidation callback it holds
  isDirty,       \* per getter: registerGetter's isDirty
  value,         \* per getter: registerGetter's cached value
  calls,         \* per getter: how often its function has been invoked
  isCommitting,  \* Store.isCommitting, the write guard
  subscribers,   \* Store.subscribers, a Set in insertion order
  handles,       \* the unsubscribe functions handed out: <<fn, n>> is the
                 \* one returned by the n-th call of subscribe(fn)
  promises,      \* the promises made by asynchronous actions, by identity
  stack,         \* the JavaScript call stack (store and handler frames)
  exc,           \* the error being thrown, "none" when none is in flight
  ev             \* the last operation performed and its outcome

vars == <<strict, notProduction, state, deps, isDirty, value, calls,
          isCommitting, subscribers, handles, promises, stack, exc, ev>>

\* op: "write" (a direct assignment to a cell; ok = it did not throw),
\*     "commit" / "dispatch" (a call with arguments x, y; ok = it did not
\*     throw before user code ran again), "commitReturn", "dispatchReturn"
\*     (x = what the handler returned, y = what dispatch returned),
\*     "step" (anything else)
Event(op, x, y, ok) == [op |-> op, x |-> x, y |-> y, ok |-> ok]

Ev(op) == Event(op, Undef, Undef, TRUE)

Frame(kind, pc, type, payload, saved, queue, notified, fn) ==
  [kind |-> kind, pc |-> pc, type |-> type, payload |-> payload,
   saved |-> saved, queue |-> queue, notified |-> notified, fn |-> fn]

Top == stack[Len(stack)]

Pop(n) == SubSeq(stack, 1, Len(stack) - n)

UserKinds == {"mutation", "sub", "action"}

\* whose code is running: "external" is the code that owns the store
TopKind == IF stack = <<>> THEN "external" ELSE Top.kind

\* user code is running: external code (empty stack) or a handler/callback
UserRunning ==
  exc = "none" /\ TopKind \in UserKinds \cup {"external"}

\* the number of store calls (commit, dispatch) that have not returned
CallDepth == Cardinality({i \in 1..Len(stack) : stack[i].kind \in {"commit", "action"}})

\* The bodies explored for each kind of user code.  External code does
\* everything; a mutation handler writes state and commits; an action
\* writes, commits, dispatches and reads getters; a subscriber writes,
\* commits and changes the subscriber set.
Does(op) ==
  CASE TopKind = "external" -> TRUE
    [] TopKind = "mutation" -> op \in {"write", "commit"}
    [] TopKind = "action" -> op \in {"write", "commit", "dispatch", "read"}
    [] TopKind = "sub" -> op \in {"write", "commit", "subscribe"}
    [] OTHER -> FALSE

\* ---------------------------------------------------------------- getters
\* getters: { state: state => (state.a > 0 ? "hasAny" : "none"),
\*            cond:  state => (state.a > 0 ? state.b : 0),
\*            chain: (state, getters) => getters.state }
\* handler(store.state, store.getters), gv being what store.getters yields
GetterFn(g, st, gv) ==
  CASE g = "state" -> IF st["a"] > 0 THEN "hasAny" ELSE "none"
    [] g = "cond" -> IF st["a"] > 0 THEN st["b"] ELSE 0
    [] OTHER -> gv["state"]

\* the cells the evaluation GetterFn(g, st, gv) reads through store.state
GetterReads(g, st) ==
  CASE g = "state" -> {"a"}
    [] g = "cond" -> IF st["a"] > 0 THEN {"a", "b"} ELSE {"a"}
    [] OTHER -> {}

\* the getters the evaluation of g reads through store.getters
GetterGets(g) == IF g = "chain" THEN {"state"} ELSE {}

\* the getter of store.ts, which calls the function on every read
Fresh(g, st) ==
  GetterFn(g, st, [h \in GetterGets(g) |-> GetterFn(h, st, <<>>)])

\* ------------------------------------------------------------ _initState
\* newVal !== currentValue
StrictNotEqual(newVal, currentValue) ==
  newVal # currentValue \/ newVal \in {NaNVal, StrVal}

\* (variant: the profile is not consulted)
SetterThrows_NoProfile(committing) == strict /\ ~committing

\* the guard of the setter
SetterThrows(committing) == strict /\ ~committing /\ notProduction

\* (variant: the setter calls no invalidation callback)
DirtyAfterSet_Unmarked(c, newVal) == isDirty

\* the getters marked dirty by set(newVal) on cell c
DirtyAfterSet(c, newVal) ==
  [g \in DOMAIN isDirty |->
     isDirty[g] \/ (g \in deps[c] /\ StrictNotEqual(newVal, state[c]))]

\* the store after new Store({state: st, getters, mutations, actions}):
\* every getter is evaluated once, eagerly, with its invalidation callback
\* as the running reaction; a getter read during that evaluation is clean
\* and hands out its cached value without reading a cell
InitStore(st) ==
  /\ state = st
  /\ deps = [c \in Cells |-> {g \in Getters : c \in GetterReads(g, st)}]
  /\ isDirty = [g \in Getters |-> FALSE]
  /\ value = [g \in Getters |-> Fresh(g, st)]
  /\ calls = [g \in Getters |-> 1]
  /\ isCommitting = FALSE
  /\ subscribers = <<>>
  /\ handles = {}
  /\ promises = <<>>
  /\ stack = <<>>
  /\ exc = "none"
  /\ ev = Ev("step")

Init ==
  /\ strict \in BOOLEAN
  /\ notProduction \in BOOLEAN
  /\ InitStore([c \in Cells |-> 0])

\* user code assigns state.c = v
DirectWrite(c, v) ==
  /\ UserRunning
  /\ Does("write")
  /\ IF SetterThrows(isCommitting)
       THEN /\ exc' = "OutsideMutation"
            /\ ev' = Event("write", Undef, Undef, FALSE)
            /\ UNCHANGED <<state, isDirty>>
       ELSE /\ isDirty' = DirtyAfterSet(c, v)
            /\ state' = [state EXCEPT ![c] = v]
            /\ ev' = Event("write", Undef, Undef, TRUE)
            /\ UNCHANGED exc
  /\ UNCHANGED <<calls, promises>>
  /\ UNCHANGED <<strict, notProduction, deps, value, isCommitting,
                 subscribers, handles, stack>>

\* user code reads store.getters[g]
\* (variant: the getter of store.ts, which calls the function on every read)
ReadGetter_Always(g) ==
  /\ UserRunning
  /\ Does("read")
  /\ calls[g] < MaxCalls
  /\ value' = [value EXCEPT ![g] = Fresh(g, state)]
  /\ isDirty' = [isDirty EXCEPT ![g] = FALSE]
  /\ calls' = [calls EXCEPT ![g] = @ + 1]
  /\ ev' = Event("read", Str(g), Undef, TRUE)
  /\ UNCHANGED <<strict, notProduction, state, deps, isCommitting,
                 subscribers, handles, promises, stack, exc>>

\* get(): if (isDirty) { value = getter(); isDirty = false }; return value.
\* getter() runs with store.runningReaction = null, so no cell records the
\* reads of a recomputation; a dirty getter read by the function is
\* recomputed in turn.
ReadGetter(g) ==
  LET inner == {h \in GetterGets(g) : isDirty[g] /\ isDirty[h]}
      invoked == IF isDirty[g] THEN inner \cup {g} ELSE {}
      v1 == [h \in Getters |->
               IF h \in inner THEN GetterFn(h, state, value) ELSE value[h]]
  IN
  /\ UserRunning
  /\ Does("read")
  /\ \A h \in invoked : calls[h] < MaxCalls
  /\ value' = [v1 EXCEPT ![g] = IF isDirty[g] THEN GetterFn(g, state, v1)
                                               ELSE @]
  /\ isDirty' = [h \in Getters |-> isDirty[h] /\ h \notin invoked]
  /\ calls' = [h \in Getters |->
                 IF h \in invoked THEN calls[h] + 1 ELSE calls[h]]
  /\ ev' = Event("read", Str(g), Undef, TRUE)
  /\ UNCHANGED <<strict, notProduction, state, deps, isCommitting,
                 subscribers, handles, promises, stack, exc>>

\* (variant: delete clears the set)
Remove_All(seq, x) == <<>>

\* subscribers.delete(fn)
Remove(seq, x) == SelectSeq(seq, LAMBDA e : e # x)

Contains(seq, x) == \E i \in 1..Len(seq) : seq[i] = x

\* the unsubscribe functions that subscribe(fn) has returned so far
HandlesOf(fn) == {h \in handles : h[1] = fn}

\* (variant: the notification iterates the live set, so a function added by
\* a callback joins the notification in progress)
Subscribe_Live(fn) ==
  /\ UserRunning
  /\ Does("subscribe")
  /\ Cardinality(HandlesOf(fn)) < MaxHandles
  /\ subscribers' = IF Contains(subscribers, fn) THEN subscribers
                    ELSE Append(subscribers, fn)
  /\ handles' = handles \cup {<<fn, Cardinality(HandlesOf(fn)) + 1>>}
  /\ ev' = Ev("step")
  /\ stack' = IF TopKind = "sub" /\ ~Contains(subscribers, fn)
                THEN [stack EXCEPT ![Len(stack) - 1].queue = Append(@, fn)]
                ELSE stack
  /\ UNCHANGED <<calls, promises>>
  /\ UNCHANGED <<strict, notProduction, state, deps, isDirty, value,
                 isCommitting, exc>>

\* (variant: the subscribers are kept in a list, every call adds an entry)
Subscribe_List(fn) ==
  /\ UserRunning
  /\ Does("subscribe")
  /\ Cardinality(HandlesOf(fn)) < MaxHandles
  /\ subscribers' = Append(subscribers, fn)
  /\ handles' = handles \cup {<<fn, Cardinality(HandlesOf(fn)) + 1>>}
  /\ ev' = Ev("step")
  /\ UNCHANGED <<calls, promises>>
  /\ UNCHANGED <<strict, notProduction, state, deps, isDirty, value,
                 isCommitting, stack, exc>>

\* user code calls store.subscribe(fn)
Subscribe(fn) ==
  /\ UserRunning
  /\ Does("subscribe")
  /\ Cardinality(HandlesOf(fn)) < MaxHandles
  /\ subscribers' = IF Contains(subscribers, fn) THEN subscribers
                    ELSE Append(subscribers, fn)
  /\ handles' = handles \cup {<<fn, Cardinality(HandlesOf(fn)) + 1>>}
  /\ ev' = Ev("step")
  /\ UNCHANGED <<calls, promises>>
  /\ UNCHANGED <<strict, notProduction, state, deps, isDirty, value,
                 isCommitting, stack, exc>>

\* user code calls a function returned by store.subscribe(fn)
Unsubscribe(fn) ==
  /\ UserRunning
  /\ Does("subscribe")
  /\ HandlesOf(fn) # {}
  /\ subscribers' = Remove(subscribers, fn)
  /\ ev' = Ev("step")
  /\ UNCHANGED <<calls, promises>>
  /\ UNCHANGED <<strict, notProduction, state, deps, isDirty, value,
                 isCommitting, handles, stack, exc>>

\* ------------------------------------------------------------ _withCommit
\* (variant: isCommitting is not raised)
GuardDuring_Unset(prev) == prev

\* the value _withCommit gives isCommitting before it calls cb()
GuardDuring(prev) == TRUE

\* the value _withCommit gives isCommitting after cb() has returned; there
\* is no try/finally, so a cb() that throws skips this assignment
GuardAfter(saved, current) == saved

\* -------------------------------------------------- handlers of the tests
\* JavaScript x + p for a cell content x and a value p
Plus(x, p) ==
  CASE x = StrVal -> StrVal
    [] p.t = "number" -> IF x = NaNVal THEN NaNVal ELSE x + p.n
    [] p.t = "undefined" -> NaNVal
    [] p.k = "null" -> x
    [] OTHER -> StrVal

\* [TEST](state, n) { state.a += n }
\* [TEST](state, payload) { state.a += payload.amount }
\* result: whether the body throws, else the value assigned to state.a
BodyResult(body, payload) ==
  CASE body = "addN" -> [throws |-> FALSE, val |-> Plus(state["a"], payload)]
    [] body = "addAmount" /\ (payload.t = "undefined" \/ payload.k = "null") ->
         [throws |-> TRUE, val |-> state["a"]]
    [] body = "addAmount" /\ isObject(payload) ->
         [throws |-> FALSE, val |-> Plus(state["a"], Num(payload.n))]
    [] OTHER -> [throws |-> FALSE, val |-> Plus(state["a"], Undef)]

InRange(v) == v \in CellVals \cup {NaNVal, StrVal}

\* ------------------------------------------------------------------ commit
\* user code calls store.commit(_type, _payload); the steps up to the first
\* point where user code runs again (a handler with a user-code body, a
\* subscriber, or the caller catching an error) form one step
Commit(_type, _payload) ==
  LET norm == toObjectStyle(notProduction, _type, _payload)
      key == PropertyKey(norm.type)
      mutation == LookUp(MutationNames, key)
      body == MutationBody(key)
      saved == isCommitting
      during == GuardDuring(saved)
      res == BodyResult(body, norm.payload)
      commitFrame(pc) == Frame("commit", pc, norm.type, norm.payload, saved,
                               IF pc = "notify"
                                 THEN setFromForeachable(subscribers)
                                 ELSE <<>>,
                               <<>>, "")
  IN
  /\ UserRunning
  /\ Does("commit")
  /\ UNCHANGED <<calls, promises>>
  /\ UNCHANGED <<strict, notProduction, deps, value, subscribers, handles>>
  /\ IF norm.throws
       THEN \* toObjectStyle throws
            /\ exc' = "TypeError"
            /\ ev' = Event("commit", _type, _payload, FALSE)
            /\ UNCHANGED <<state, isDirty, isCommitting, stack>>
     ELSE IF mutation = "undefined"
       THEN \* mutation(payload) throws: mutation is not a function
            /\ exc' = "NotCallable"
            /\ isCommitting' = during
            /\ ev' = Event("commit", _type, _payload, FALSE)
            /\ UNCHANGED <<state, isDirty, stack>>
     ELSE IF mutation = "inherited"
       THEN \* a function of Object.prototype runs and returns
            /\ CallDepth < MaxDepth
            /\ isCommitting' = GuardAfter(saved, during)
            /\ stack' = Append(stack, commitFrame("notify"))
            /\ ev' = Event("commit", _type, _payload, TRUE)
            /\ UNCHANGED <<state, isDirty, exc>>
     ELSE IF body = "free"
       THEN \* the handler's body is user code: it runs in the next steps
            /\ CallDepth < MaxDepth
            /\ isCommitting' = during
            /\ stack' = stack \o <<commitFrame("handler"),
                                   Frame("mutation", "", norm.type,
                                         norm.payload, saved, <<>>, <<>>, "")>>
            /\ ev' = Event("commit", _type, _payload, TRUE)
            /\ UNCHANGED <<state, isDirty, exc>>
     ELSE IF res.throws \/ SetterThrows(during)
       THEN \* the handler throws: isCommitting is not restored
            /\ exc' = IF res.throws THEN "HandlerError" ELSE "OutsideMutation"
            /\ isCommitting' = during
            /\ ev' = Event("commit", _type, _payload, FALSE)
            /\ UNCHANGED <<state, isDirty, stack>>
       ELSE \* the handler assigns state.a and returns
            /\ CallDepth < MaxDepth
            /\ InRange(res.val)
            /\ isDirty' = DirtyAfterSet("a", res.val)
            /\ state' = [state EXCEPT !["a"] = res.val]
            /\ isCommitting' = GuardAfter(saved, during)
            /\ stack' = Append(stack, commitFrame("notify"))
            /\ ev' = Event("commit", _type, _payload, TRUE)
            /\ UNCHANGED exc

\* the body of a user-code mutation handler returns: _withCommit restores
\* the guard, commit takes the snapshot of the subscribers
HandlerReturn ==
  /\ UserRunning
  /\ TopKind = "mutation"
  /\ LET c == stack[Len(stack) - 1]
     IN /\ isCommitting' = GuardAfter(c.saved, isCommitting)
        /\ stack' = Append(Pop(2), [c EXCEPT !.pc = "notify",
                                             !.queue =
                                               setFromForeachable(subscribers)])
  /\ ev' = Ev("step")
  /\ UNCHANGED <<calls, promises>>
  /\ UNCHANGED <<strict, notProduction, state, deps, isDirty, value,
                 subscribers, handles, exc>>

\* subscribersCopy.forEach: call the next subscriber of the snapshot
Notify ==
  /\ exc = "none"
  /\ TopKind = "commit"
  /\ Top.pc = "notify" /\ Top.queue # <<>>
  /\ LET sub == Head(Top.queue)
     IN stack' = Pop(1) \o
          <<[Top EXCEPT !.queue = Tail(@), !.notified = Append(@, sub)],
            Frame("sub", "", Top.type, Top.payload, FALSE, <<>>, <<>>, sub)>>
  /\ ev' = Ev("step")
  /\ UNCHANGED <<calls, promises>>
  /\ UNCHANGED <<strict, notProduction, state, deps, isDirty, value,
                 isCommitting, subscribers, handles, exc>>

\* a subscriber callback returns
SubReturn ==
  /\ UserRunning
  /\ TopKind = "sub"
  /\ stack' = Pop(1)
  /\ ev' = Ev("step")
  /\ UNCHANGED <<calls, promises>>
  /\ UNCHANGED <<strict, notProduction, state, deps, isDirty, value,
                 isCommitting, subscribers, handles, exc>>

\* every subscriber of the snapshot was called: commit returns
CommitReturn ==
  /\ exc = "none"
  /\ TopKind = "commit"
  /\ Top.pc = "notify" /\ Top.queue = <<>>
  /\ stack' = Pop(1)
  /\ ev' = Ev("commitReturn")
  /\ UNCHANGED <<calls, promises>>
  /\ UNCHANGED <<strict, notProduction, state, deps, isDirty, value,
                 isCommitting, subscribers, handles, exc>>

\* ---------------------------------------------------------------- dispatch
\* (variant: every object is taken for a promise)
ActionResult_AnyObject(res) == IF isObject(res) THEN res ELSE PromiseResolve(res)

\* what the function stored by registerAction returns for a handler result
ActionResult(res) == IF isPromise(res) THEN res ELSE PromiseResolve(res)

\* user code calls store.dispatch(_type, _payload)
Dispatch(_type, _payload) ==
  LET norm == toObjectStyle(notProduction, _type, _payload)
      key == PropertyKey(norm.type)
      action == LookUp(ActionNames, key)
  IN
  /\ UserRunning
  /\ Does("dispatch")
  /\ UNCHANGED <<calls, promises>>
  /\ UNCHANGED <<strict, notProduction, state, deps, isDirty, value,
                 isCommitting, subscribers, handles>>
  /\ IF norm.throws
       THEN /\ exc' = "TypeError"
            /\ ev' = Event("dispatch", _type, _payload, FALSE)
            /\ UNCHANGED stack
     ELSE IF action = "undefined"
       THEN \* action(payload) throws: action is not a function
            /\ exc' = "NotCallable"
            /\ ev' = Event("dispatch", _type, _payload, FALSE)
            /\ UNCHANGED stack
     ELSE IF action = "inherited"
       THEN \* a function of Object.prototype runs; dispatch returns its
            \* result, which is not a promise
            /\ ev' = Event("dispatch", _type, _payload, TRUE)
            /\ UNCHANGED <<stack, exc>>
       ELSE \* the handler's body is user code: it runs in the next steps
            /\ CallDepth < MaxDepth
            /\ stack' = Append(stack, Frame("action", "", norm.type,
                                            norm.payload, FALSE, <<>>, <<>>, ""))
            /\ ev' = Event("dispatch", _type, _payload, TRUE)
            /\ UNCHANGED exc

\* the body of an action handler returns res; dispatch returns the result
ActionReturn(res) ==
  /\ UserRunning
  /\ TopKind = "action"
  /\ stack' = Pop(1)
  /\ ev' = Event("dispatchReturn", res, ActionResult(res), TRUE)
  /\ UNCHANGED <<calls, promises>>
  /\ UNCHANGED <<strict, notProduction, state, deps, isDirty, value,
                 isCommitting, subscribers, handles, exc>>

\* ------------------------------------------------------------------ errors
\* a handler or callback executes `throw`
Throw ==
  /\ UserRunning
  /\ stack # <<>>
  /\ exc' = "UserError"
  /\ ev' = Ev("step")
  /\ UNCHANGED <<calls, promises>>
  /\ UNCHANGED <<strict, notProduction, state, deps, isDirty, value,
                 isCommitting, subscribers, handles, stack>>

\* the running user code catches the error (try/catch around its last call)
Catch ==
  /\ exc # "none"
  /\ TopKind \in UserKinds \cup {"external"}
  /\ exc' = "none"
  /\ ev' = Ev("step")
  /\ UNCHANGED <<calls, promises>>
  /\ UNCHANGED <<strict, notProduction, state, deps, isDirty, value,
                 isCommitting, subscribers, handles, stack>>

\* (variant: forEach goes on after a callback that threw: the error leaves
\* the callback only, the commit stays on the stack)
Propagate_CallbackOnly ==
  /\ exc # "none"
  /\ TopKind \in UserKinds
  /\ stack' = IF Top.kind \in {"action", "sub"} THEN Pop(1) ELSE Pop(2)
  /\ exc' = IF Top.kind = "sub" THEN "none" ELSE exc
  /\ ev' = Ev("step")
  /\ UNCHANGED <<calls, promises>>
  /\ UNCHANGED <<strict, notProduction, state, deps, isDirty, value,
                 isCommitting, subscribers, handles>>

\* the running handler or callback does not catch the error: it leaves the
\* handler and, for a mutation handler or a subscriber, _withCommit/forEach
\* and commit, none of which catches or restores anything
Propagate ==
  /\ exc # "none"
  /\ TopKind \in UserKinds
  /\ stack' = IF Top.kind = "action" THEN Pop(1) ELSE Pop(2)
  /\ ev' = Ev("step")
  /\ UNCHANGED <<calls, promises>>
  /\ UNCHANGED <<strict, notProduction, state, deps, isDirty, value,
                 isCommitting, subscribers, handles, exc>>

\* ------------------------------------------------------ asynchronous actions
\* The actions of "composing actions with async/await":
\*   [TEST]({ commit }, n) { return new Promise(resolve => {
\*       setTimeout(() => { commit(TEST, n); resolve(); }, 0); }); }
\*   two: async ({ commit, dispatch }, n) => {
\*       await dispatch(TEST, 1); commit(TEST, n); }
\* promises[p] is the promise with identity p: the one TEST returns
\* ("timer": its callback waits for nothing) or the one the async function
\* two returns ("await": its continuation waits for promise `waits`).  The
\* callback or continuation commits TEST with n and then resolves p.
Promise(kind, n, waits) ==
  [kind |-> kind, n |-> n, waits |-> waits, st |-> "pending"]

\* the frame of a callback or continuation the event loop has started
IsTask(f) == f.kind = "action" /\ f.pc = "task"

\* the promise whose callback or continuation is on the stack
Running == {p \in 1..Len(promises) : promises[p].st = "running"}

\* the promises a dispatch of name makes
Makes(name) == IF name = "two" THEN 2 ELSE 1

\* the handler of TEST: make the promise, arm the timer, return the promise
ActionSchedule ==
  LET res == PromiseOf(Len(promises) + 1, Undef)
  IN
  /\ UserRunning
  /\ TopKind = "action"
  /\ Top.pc = "" /\ Top.type = Str("TEST") /\ Top.payload.t = "number"
  /\ promises' = Append(promises, Promise("timer", Top.payload.n, 0))
  /\ stack' = Pop(1)
  /\ ev' = Event("dispatchReturn", res, ActionResult(res), TRUE)
  /\ UNCHANGED <<strict, notProduction, state, deps, isDirty, value, calls,
                 isCommitting, subscribers, handles, exc>>

\* two, up to its await: the nested dispatch has returned its awaitable;
\* the async function suspends on it and returns its own promise
ActionAwait ==
  LET res == PromiseOf(Len(promises) + 1, Undef)
  IN
  /\ UserRunning
  /\ TopKind = "action"
  /\ Top.pc = "" /\ Top.type = Str("two") /\ Top.payload.t = "number"
  /\ ev.op = "dispatchReturn" /\ ev.y.k = "promise"
  /\ promises' = Append(promises, Promise("await", Top.payload.n, ev.y.id))
  /\ stack' = Pop(1)
  /\ ev' = Event("dispatchReturn", res, ActionResult(res), TRUE)
  /\ UNCHANGED <<strict, notProduction, state, deps, isDirty, value, calls,
                 isCommitting, subscribers, handles, exc>>

\* (variant: a callback is run as soon as it is ready, whatever is running)
TaskStart_Anytime(p) ==
  /\ exc = "none"
  /\ Running = {}
  /\ p \in 1..Len(promises)
  /\ promises[p].st = "pending"
  /\ IF promises[p].waits = 0 THEN TRUE
     ELSE promises[promises[p].waits].st = "resolved"
  /\ promises' = [promises EXCEPT ![p].st = "running"]
  /\ stack' = Append(stack, Frame("action", "task", Str("TEST"),
                                  Num(promises[p].n), FALSE, <<>>, <<>>, ""))
  /\ ev' = Event("task", Num(p), Undef, TRUE)
  /\ UNCHANGED <<strict, notProduction, state, deps, isDirty, value, calls,
                 isCommitting, subscribers, handles, exc>>

\* (variant: an await does not wait for its awaitable)
TaskStart_NoWait(p) ==
  /\ stack = <<>>
  /\ exc = "none"
  /\ p \in 1..Len(promises)
  /\ promises[p].st = "pending"
  /\ promises' = [promises EXCEPT ![p].st = "running"]
  /\ stack' = <<Frame("action", "task", Str("TEST"), Num(promises[p].n),
                      FALSE, <<>>, <<>>, "")>>
  /\ ev' = Event("task", Num(p), Undef, TRUE)
  /\ UNCHANGED <<strict, notProduction, state, deps, isDirty, value, calls,
                 isCommitting, subscribers, handles, exc>>

\* the event loop, with nothing on the call stack, runs a timer callback or
\* the continuation of an await whose awaitable has resolved; the callbacks
\* that are ready run in any order
TaskStart(p) ==
  /\ stack = <<>>
  /\ exc = "none"
  /\ p \in 1..Len(promises)
  /\ promises[p].st = "pending"
  /\ IF promises[p].waits = 0 THEN TRUE
     ELSE promises[promises[p].waits].st = "resolved"
  /\ promises' = [promises EXCEPT ![p].st = "running"]
  /\ stack' = <<Frame("action", "task", Str("TEST"), Num(promises[p].n),
                      FALSE, <<>>, <<>>, "")>>
  /\ ev' = Event("task", Num(p), Undef, TRUE)
  /\ UNCHANGED <<strict, notProduction, state, deps, isDirty, value, calls,
                 isCommitting, subscribers, handles, exc>>

\* the callback or continuation calls commit(TEST, n)
TaskCommit ==
  /\ TopKind = "action"
  /\ Top.pc = "task" /\ ev.op = "task"
  /\ Commit(Top.type, Top.payload)

\* commit has returned: resolve() / the async function returns
TaskDone ==
  /\ exc = "none"
  /\ TopKind = "action"
  /\ Top.pc = "task" /\ ev.op = "commitReturn"
  /\ promises' = [p \in 1..Len(promises) |->
                    IF p \in Running THEN [promises[p] EXCEPT !.st = "resolved"]
                    ELSE promises[p]]
  /\ stack' = Pop(1)
  /\ ev' = Event("resolve", Undef, Undef, TRUE)
  /\ UNCHANGED <<strict, notProduction, state, deps, isDirty, value, calls,
                 isCommitting, subscribers, handles, exc>>

\* ------------------------------------------------------ nested state trees
\* A value of the initial state object: a number, null, an array or a plain
\* object.  kids are the entries Object.entries yields for it, each a key
\* and a value; t and k are typeof and the kind of object, as for the
\* arguments of commit.
TreeVal(t, k, n, kids) == [t |-> t, k |-> k, n |-> n, kids |-> kids]
Entry(key, val) == [key |-> key, val |-> val]
NumberVal(n) == TreeVal("number", "", n, {})
NullTree == TreeVal("object", "null", 0, {})
ArrayVal(kids) == TreeVal("object", "array", 0, kids)
ObjectVal(kids) == TreeVal("object", "plain", 0, kids)

\* Array.isArray
isArray(val) == val.k = "array"

\* what a cell holds for a value that is not a number: null, (a reference
\* to) an array, (a reference to) the tree built for a nested object
NullVal == -3
ArrVal == -4
NodeVal == -5

\* the numbers the initial state holds and the handlers assign
LeafNums == 0..1

\* the initial state objects explored: nested up to d levels along the key
\* x, with numbers, null, [] and [{x: 0}] as the other values
Leaves == {NumberVal(n) : n \in LeafNums} \cup {NullTree}
Arrays == {ArrayVal({}),
           ArrayVal({Entry("0", ObjectVal({Entry("x", NumberVal(0))}))})}

RECURSIVE Objects(_)
Objects(d) ==
  LET below == Leaves \cup Arrays
                 \cup (IF d > 1 THEN Objects(d - 1) ELSE {})
      xs == {{}} \cup {{Entry("x", v)} : v \in below}
      ys == {{}} \cup {{Entry("y", NumberVal(n))} : n \in LeafNums}
  IN {ObjectVal(ex \cup ey) : ex \in xs, ey \in ys}

\* currentValue of the cell made for value
CellContent(val) ==
  CASE isObject(val) /\ ~isArray(val) -> NodeVal
    [] isArray(val) -> ArrVal
    [] val.k = "null" -> NullVal
    [] OTHER -> val.n

\* (variant: nested objects are stored as they are, without their own
\* accessors)
_initState_Shallow(obj, path) ==
  {[path |-> Append(path, e.key), currentValue |-> CellContent(e.val)] :
     e \in obj.kids}

\* _initState(obj): the cells defined with Object.defineProperty, each named
\* by the path of keys that leads to it from the root
RECURSIVE _initState(_, _)
_initState(obj, path) ==
  UNION {LET key == Append(path, e.key)
         IN {[path |-> key, currentValue |-> CellContent(e.val)]}
              \cup (IF isObject(e.val) /\ ~isArray(e.val)
                      THEN _initState(e.val, key)
                      ELSE {})
         : e \in obj.kids}

\* p is q or leads to q
IsPrefix(p, q) == Len(p) <= Len(q) /\ SubSeq(q, 1, Len(p)) = p

\* the getters of the store built over a nested state: leaf reads the cells
\* along one path, state => state.x.y for <<"x", "y">>
TreeGetters == {"leaf"}

\* new Store({state: obj, getters: {leaf}, mutations: {FREE}}); the getter
\* is evaluated once and every cell it reads on its way down registers it
InitTree ==
  /\ strict \in BOOLEAN
  /\ notProduction \in BOOLEAN
  /\ \E obj \in Objects(MaxNest) :
       LET cells == _initState(obj, <<>>)
           paths == {c.path : c \in cells}
           st == [p \in paths |->
                   (CHOOSE c \in cells : c.path = p).currentValue]
       IN \E rp \in paths \cup {<<>>} :
            /\ state = st
            /\ deps = [p \in paths |->
                         IF IsPrefix(p, rp) THEN TreeGetters ELSE {}]
            /\ isDirty = [g \in TreeGetters |-> FALSE]
            /\ value = [g \in TreeGetters |->
                          IF rp = <<>> THEN 0 ELSE st[rp]]
            /\ calls = [g \in TreeGetters |-> 1]
            /\ ev = Event("new", obj, Undef, TRUE)
  /\ isCommitting = FALSE
  /\ subscribers = <<>>
  /\ handles = {}
  /\ promises = <<>>
  /\ stack = <<>>
  /\ exc = "none"

\* the cell at path p can be reached from the root: every slot above it
\* still holds the tree built at construction
Reachable(p) ==
  \A i \in 1..(Len(p) - 1) : state[SubSeq(p, 1, i)] = NodeVal

\* ----------------------------------------------------------- specifications
\* The store as the test suite builds it (strict left at its default, test
\* profile), with re-entrant user code: handlers and subscribers call back
\* into the store up to MaxDepth nested calls.  Getters are not read here:
\* a read changes no cell, no guard and no subscriber.  Each function is
\* subscribed once; SpecSubs subscribes a function repeatedly.
InitTest == Init /\ strict /\ notProduction

\* the first call of subscribe(fn)
SubscribeOnce(fn) == HandlesOf(fn) = {} /\ Subscribe(fn)

Next ==
  \/ \E v \in CellVals : DirectWrite("a", v)
  \/ \E fn \in Subs : SubscribeOnce(fn)
  \/ \E fn \in Subs : Unsubscribe(fn)
  \/ \E t \in ProtoTypes, p \in ProtoPayloads : Commit(t, p)
  \/ HandlerReturn
  \/ Notify
  \/ SubReturn
  \/ CommitReturn
  \/ \E t \in ProtoTypes, p \in ProtoPayloads : Dispatch(t, p)
  \/ \E res \in {Undef} : ActionReturn(res)
  \/ Throw
  \/ Catch
  \/ Propagate

Spec == InitTest /\ [][Next]_vars

\* Every configuration of strict and of the profile, and every shape of
\* argument and of handler result; the calls come from external code only.
External == stack = <<>>

NextFlat ==
  \/ \E c \in Cells, v \in CellVals : DirectWrite(c, v)
  \/ External /\ SubscribeOnce("s1")
  \/ External /\ Unsubscribe("s1")
  \/ \E t \in TypeArgs, p \in PayloadArgs : External /\ Commit(t, p)
  \/ HandlerReturn
  \/ Notify
  \/ SubReturn
  \/ CommitReturn
  \/ \E t \in TypeArgs, p \in PayloadArgs : External /\ Dispatch(t, p)
  \/ \E res \in ReturnVals : ActionReturn(res)
  \/ Throw
  \/ Catch
  \/ Propagate

SpecFlat == Init /\ [][NextFlat]_vars

\* The dependency-tracking store with the three getters, built over every
\* initial state of 0s and 1s: commits whose handler is user code that
\* writes any cell any number of times and returns or throws, direct
\* writes, and getter reads in between.
InitGetters ==
  /\ strict = TRUE
  /\ notProduction = TRUE
  /\ \E st \in [Cells -> 0..1] : InitStore(st)

NextGetters ==
  \/ \E c \in Cells, v \in CellVals \cup {NaNVal} : DirectWrite(c, v)
  \/ \E g \in Getters : External /\ ReadGetter(g)
  \/ External /\ Commit(Str("FREE"), Undef)
  \/ HandlerReturn
  \/ CommitReturn
  \/ Throw
  \/ Catch
  \/ Propagate

SpecGetters == InitGetters /\ [][NextGetters]_vars

\* The store of "composing actions with async/await" with subscribers:
\* external code dispatches TEST and two, several of them in flight, and the
\* event loop runs the ready callbacks in any order.  Every commit adds 1,
\* so the promises made are capped by the room left in cell a.
InitAsync == InitTest

NextAsync ==
  \/ \E fn \in Subs : External /\ SubscribeOnce(fn)
  \/ \E fn \in Subs : External /\ Unsubscribe(fn)
  \/ \E name \in {"TEST", "two"} :
       /\ External
       /\ Len(promises) + Makes(name) <= MaxVal
       /\ Dispatch(Str(name), Num(1))
  \/ /\ TopKind = "action"
     /\ Top.type = Str("two") /\ ev.op = "dispatch"
     /\ Dispatch(Str("TEST"), Num(1))
  \/ ActionSchedule
  \/ ActionAwait
  \/ \E p \in 1..MaxVal : TaskStart(p)
  \/ TaskCommit
  \/ Notify
  \/ SubReturn
  \/ CommitReturn
  \/ TaskDone

SpecAsync == InitAsync /\ [][NextAsync]_vars

\* The subscriber set: external code and the subscriber callbacks subscribe
\* each function up to MaxHandles times, call the unsubscribe functions
\* they were given and commit TEST.
NextSubs ==
  \/ \E fn \in Subs : Subscribe(fn)
  \/ \E fn \in Subs : Unsubscribe(fn)
  \/ Commit(Str("TEST"), Num(1))
  \/ Notify
  \/ SubReturn
  \/ CommitReturn

SpecSubs == InitTest /\ [][NextSubs]_vars

\* The store built over a nested initial state, in every configuration of
\* strict and of the profile: external code and the body of the FREE
\* handler assign to the slots of every level.
NextTree ==
  \/ \E p \in DOMAIN state, v \in LeafNums :
       Reachable(p) /\ DirectWrite(p, v)
  \/ External /\ Commit(Str("FREE"), Undef)
  \/ HandlerReturn
  \/ CommitReturn

SpecTree == InitTree /\ [][NextTree]_vars

TypeOK ==
  /\ strict \in BOOLEAN /\ notProduction \in BOOLEAN
  /\ isCommitting \in BOOLEAN
  /\ \A c \in Cells : InRange(state[c])
  /\ CallDepth <= MaxDepth

\* ------------------------------------------------------------------ claims
\* a mutation handler is executing (its frame is on the call stack)
InMutation == \E i \in 1..Len(stack) : stack[i].kind = "mutation"

\* the frame of the commit that called the running handler or subscriber
Caller == stack[Len(stack) - 1]

\* C1: under strict mode in a non-production profile a value of the state
\* tree changes only while isCommitting is true, that is, only while a
\* mutation handler invoked through commit is executing.
C1_ChangesOnlyInsideMutation ==
  [][state' # state =>
       \/ ev'.op = "commit"
       \/ ev'.op = "write" /\ isCommitting /\ InMutation]_vars

\* C3: commit(m, p) runs m's handler once, synchronously, with (state, p),
\* and isCommitting is true for as long as the handler executes, so every
\* write the handler performs succeeds under strict mode.
C3_Frames ==
  \A i \in 1..Len(stack) :
    /\ stack[i].kind = "mutation" =>
         /\ isCommitting
         /\ i > 1
         /\ stack[i - 1].kind = "commit" /\ stack[i - 1].pc = "handler"
         /\ stack[i].type = stack[i - 1].type
         /\ stack[i].payload = stack[i - 1].payload
    /\ (stack[i].kind = "commit" /\ stack[i].pc = "handler") =>
         (i < Len(stack) /\ stack[i + 1].kind = "mutation")

C3_Steps ==
  /\ (TopKind = "mutation" /\ ev'.op = "write") => ev'.ok
  /\ (ev'.op = "commit" /\ ev'.ok /\ ev'.x = Str("TEST")) =>
       /\ state'["a"] = state["a"] + ev'.y.n
       /\ stack' = Append(stack, stack'[Len(stack')])
       /\ stack'[Len(stack')].pc = "notify"
  /\ (ev'.op = "commit" /\ ev'.ok /\ ev'.x = Str("FREE")) =>
       /\ Len(stack') = Len(stack) + 2
       /\ stack'[Len(stack')].kind = "mutation"
       /\ stack'[Len(stack')].payload = ev'.y
       /\ state' = state
  /\ \A i \in 1..Len(stack) :
       (stack[i].kind = "commit" /\ stack[i].pc = "notify" /\ i <= Len(stack'))
         => stack'[i].pc = "notify"

C3_HandlerRunsOnceGuarded == [](C3_Frames) /\ [][C3_Steps]_vars

C3_Witness ==
  /\ strict /\ notProduction
  /\ TopKind = "mutation" /\ isCommitting
  /\ ev.op = "write" /\ ev.ok

\* C4: when a commit returns normally isCommitting has the value it had
\* when that commit was called (so it is false again once the outermost
\* commit has returned).
C4_GuardAsBeforeOnReturn ==
  [][ev'.op = "commitReturn" => isCommitting' = Top.saved]_vars

\* C5: isCommitting is restored on every exit path of a commit: after the
\* error of a throwing handler has left commit, isCommitting equals its
\* value from before that commit.
C5_GuardRestoredOnThrow ==
  [][(exc # "none" /\ TopKind = "mutation" /\ Len(stack') = Len(stack) - 2)
       => isCommitting' = Caller.saved]_vars

\* C2: the setter throws exactly when strict, not committing and not in
\* production; otherwise the value is stored.  A write that throws changes
\* no cell and marks no getter dirty.
C2_SetterGuard ==
  [][ev'.op = "write" =>
       \A c \in Cells, v \in CellVals :
         DirectWrite(c, v) =>
           IF strict /\ ~isCommitting /\ notProduction
             THEN /\ exc' = "OutsideMutation" /\ ~ev'.ok
                  /\ state' = state /\ isDirty' = isDirty
             ELSE /\ exc' = "none" /\ ev'.ok
                  /\ state' = [state EXCEPT ![c] = v]]_vars

C2_Witness ==
  /\ ev.op = "write" /\ ~ev.ok /\ exc = "OutsideMutation"
  /\ strict /\ notProduction /\ ~isCommitting
  /\ isDirty["state"] = FALSE

\* C6: in a non-production profile a commit or dispatch whose normalized
\* type is not a string throws the type error before any lookup: no
\* handler runs, nobody is notified, nothing changes.
NormalizedType(_type, _payload) ==
  IF _type.t = "object" /\ _type.k # "null"
       /\ ((_type.ft = "string" /\ _type.fs # "")
             \/ (_type.ft = "number" /\ _type.fn # 0))
    THEN _type.ft
    ELSE _type.t

C6_NonStringTypeThrows ==
  [][(/\ ev'.op \in {"commit", "dispatch"}
      /\ notProduction
      /\ NormalizedType(ev'.x, ev'.y) # "string")
       => /\ exc' = "TypeError" /\ ~ev'.ok
          /\ UNCHANGED <<state, isCommitting, isDirty, value, stack,
                         subscribers, deps>>]_vars

C6_Witness ==
  /\ notProduction
  /\ ev.op = "commit" /\ ev.x = Undef /\ ev.y = Num(2)
  /\ exc = "TypeError" /\ stack = <<>> /\ state["a"] = 0

\* C7: an object first argument carrying a type field is the payload and
\* its type field names the handler; otherwise the first argument is the
\* name and the second the payload.  So commit("X", n) with a handler that
\* adds n and commit({type: "X", amount: n}) with a handler that adds
\* payload.amount both add n to state.a.
C7_ObjectStyleEquivalent ==
  [][/\ (/\ ev'.op = "commit"
         /\ ev'.x.t = "string" /\ ev'.x.s \in MutationNames
         /\ MutationBody(ev'.x.s) = "addN" /\ ev'.y.t = "number")
          => (ev'.ok /\ state'["a"] = Plus(state["a"], ev'.y))
     /\ (/\ ev'.op = "commit"
         /\ isObject(ev'.x) /\ ev'.x.ft = "string"
         /\ ev'.x.fs \in MutationNames
         /\ MutationBody(ev'.x.fs) = "addAmount")
          => (ev'.ok /\ state'["a"] = Plus(state["a"], Num(ev'.x.n)))]_vars

\* C8: commit (dispatch) of a string that is not a registered mutation
\* (action) always raises an error to the caller, never completes, never
\* notifies, and leaves the state tree and isCommitting as they were.
C8_UnknownNameFails ==
  [][(/\ ev'.op \in {"commit", "dispatch"}
      /\ ev'.x.t = "string"
      /\ ev'.x.s \notin (IF ev'.op = "commit" THEN MutationNames
                         ELSE ActionNames))
       => /\ ~ev'.ok /\ exc' # "none"
          /\ UNCHANGED <<state, isCommitting, stack>>]_vars

C10_Frames ==
  \A i \in 1..Len(stack) :
    /\ stack[i].kind = "sub" =>
         /\ i > 1
         /\ stack[i - 1].kind = "commit" /\ stack[i - 1].pc = "notify"
         /\ stack[i].type = stack[i - 1].type
         /\ stack[i].payload = stack[i - 1].payload
         /\ stack[i - 1].notified # <<>>
         /\ stack[i].fn = stack[i - 1].notified[Len(stack[i - 1].notified)]
    /\ (stack[i].kind = "commit" /\ stack[i].pc = "handler") =>
         (stack[i].notified = <<>> /\ stack[i].queue = <<>>)
    /\ stack[i].kind = "commit" =>
         \A j, k \in 1..Len(stack[i].notified) :
           stack[i].notified[j] = stack[i].notified[k] => j = k

C10_Steps ==
  \* the handler has just returned: the snapshot is the subscriber set
  /\ (\/ ev'.op = "commit" /\ ev'.ok /\ Len(stack') = Len(stack) + 1
      \/ exc = "none" /\ TopKind = "mutation" /\ Len(stack') = Len(stack) - 1)
       => /\ stack'[Len(stack')].pc = "notify"
          /\ stack'[Len(stack')].notified = <<>>
          /\ stack'[Len(stack')].queue = subscribers
          /\ stack'[Len(stack')].type.s = PropertyKey(stack'[Len(stack')].type)
  \* a commit that is notifying keeps its snapshot
  /\ \A i \in 1..Len(stack) :
       (stack[i].kind = "commit" /\ stack[i].pc = "notify" /\ i <= Len(stack'))
         => stack'[i].notified \o stack'[i].queue
              = stack[i].notified \o stack[i].queue
  \* a handler that throws: nobody was notified
  /\ (exc # "none" /\ TopKind = "mutation" /\ Len(stack') = Len(stack) - 2)
       => Caller.notified = <<>>
  \* the commit returns: the whole snapshot was notified
  /\ ev'.op = "commitReturn" => Top.queue = <<>>

\* C10 (as claimed): whenever the commit is left after its handler has
\* returned normally, every subscriber of the snapshot has been invoked
\* exactly once.
C10_EveryoneNotified ==
  /\ [](C10_Frames)
  /\ [][C10_Steps]_vars
  /\ [][(exc # "none" /\ TopKind = "sub" /\ Len(stack') = Len(stack) - 2)
          => Caller.queue = <<>>]_vars

\* C10 (amended): ... every subscriber of the snapshot is invoked at most
\* once, in snapshot order, and exactly once when the commit returns
\* normally; a subscriber that throws ends the notification.
C10_NotifyProtocol == [](C10_Frames) /\ [][C10_Steps]_vars

C10_Witness ==
  /\ TopKind = "sub" /\ Top.fn = "s2"
  /\ Caller.notified = <<"s1", "s2">> /\ Caller.queue = <<>>
  /\ Caller.type = Str("TEST") /\ Top.payload = Num(1)
  /\ state["a"] = 1 /\ ~isCommitting

\* the elements of a sequence
Members(seq) == {seq[i] : i \in 1..Len(seq)}

\* the functions for which subscribe has returned an unsubscribe function
Handed == {h[1] : h \in handles}

\* the subscribers a commit frame took as its snapshot
Snapshot(f) == f.notified \o f.queue

\* the commit frames that are notifying their subscribers
Notifying == {i \in 1..Len(stack) :
                stack[i].kind = "commit" /\ stack[i].pc = "notify"}

\* C11: a commit notifies the subscriber set as it stood when its handler
\* finished.  The snapshot of a notifying commit has no duplicates; a
\* callback that subscribes or unsubscribes changes the live set only and
\* leaves every snapshot in progress as it was, so a function added during
\* the notification is not called for that commit and a function removed
\* during it is still called; a later commit takes the live set, with the
\* added function and without the removed one.  Each notification takes one
\* function off the finite snapshot, which never grows, so the notification
\* terminates whatever the callbacks subscribe.
C11_Frames ==
  \A i \in Notifying :
    /\ Len(Snapshot(stack[i])) = Cardinality(Members(Snapshot(stack[i])))
    /\ Members(Snapshot(stack[i])) \subseteq Subs

C11_Steps ==
  \* subscribe / unsubscribe inside a callback: no frame, so no snapshot,
  \* changes
  /\ subscribers' # subscribers => stack' = stack
  /\ \A i \in 1..Len(stack') :
       IF i <= Len(stack) /\ stack'[i] = stack[i]
       THEN TRUE
       ELSE
         \* a snapshot never grows and is consumed from its head
         /\ (/\ i <= Len(stack)
             /\ stack[i].kind = "commit" /\ stack[i].pc = "notify") =>
              /\ Len(stack'[i].queue) <= Len(stack[i].queue)
              /\ stack'[i].queue # stack[i].queue =>
                   /\ i = Len(stack) /\ Len(stack') = i + 1
                   /\ stack'[i].queue = Tail(stack[i].queue)
                   /\ stack'[i + 1].kind = "sub"
                   /\ stack'[i + 1].fn = Head(stack[i].queue)
         \* a commit that starts notifying takes the live set of that moment
         /\ (/\ stack'[i].kind = "commit" /\ stack'[i].pc = "notify"
             /\ (i > Len(stack) \/ stack[i].pc # "notify")) =>
              /\ Members(stack'[i].queue) = Members(subscribers)
              /\ stack'[i].notified = <<>>
  \* a callback is only ever started from the head of a snapshot
  /\ (Len(stack') > Len(stack) /\ stack'[Len(stack')].kind = "sub") =>
       /\ TopKind = "commit" /\ Top.pc = "notify" /\ Top.queue # <<>>
       /\ stack'[Len(stack')].fn = Head(Top.queue)
  \* a commit returns once its whole snapshot has been called
  /\ ev'.op = "commitReturn" =>
       Members(Top.notified) = Members(Snapshot(Top))

C12_Steps ==
  /\ (ev'.op = "step" /\ stack' = stack) =>
       \A fn \in Subs :
         /\ Subscribe(fn) =>
              /\ Members(subscribers') = Members(subscribers) \cup {fn}
              /\ Remove(subscribers', fn) = Remove(subscribers, fn)
              /\ Members(subscribers) \subseteq Handed'
              /\ fn \in Handed'
         /\ Unsubscribe(fn) =>
              /\ Members(subscribers') = Members(subscribers) \ {fn}
              /\ \A other \in Subs \ {fn} :
                   Contains(subscribers', other) = Contains(subscribers, other)
              /\ SelectSeq(subscribers, LAMBDA e : e # fn) = subscribers'
              /\ ~Contains(subscribers, fn) => subscribers' = subscribers
              /\ state' = state /\ isCommitting' = isCommitting
              /\ exc' = "none"
  /\ \A i \in 1..Len(stack') :
       IF i <= Len(stack) /\ stack'[i] = stack[i]
       THEN TRUE
       ELSE (/\ stack'[i].kind = "commit" /\ stack'[i].pc = "notify"
             /\ (i > Len(stack) \/ stack[i].pc # "notify"))
              => \A fn \in Subs :
                   Contains(stack'[i].queue, fn) = Contains(subscribers, fn)

C12_SubscribeUnsubscribe ==
  /\ [](Members(subscribers) \subseteq Handed
        /\ Len(subscribers) = Cardinality(Members(subscribers)))
  /\ [][C12_Steps]_vars

\* s1 was subscribed and unsubscribed; a commit that started afterwards is
\* calling s2, its only subscriber
C12_Witness ==
  /\ Handed = {"s1", "s2"} /\ subscribers = <<"s2">>
  /\ TopKind = "sub" /\ Top.fn = "s2"
  /\ Snapshot(Caller) = <<"s2">> /\ Len(stack) = 2

\* ---------------------------------------------------------------- getters
\* the cells an evaluation of g on state st reads, directly or through the
\* getters it reads
TransReads(g, st) ==
  GetterReads(g, st) \cup UNION {GetterReads(h, st) : h \in GetterGets(g)}

\* the step is a successful assignment of v to cell c
Wrote(c, v) == ev'.op = "write" /\ ev'.ok /\ DirectWrite(c, v)

\* the step is a read of getter g
Read(g) == ev'.op = "read" /\ ev'.x = Str(g)

\* C15: a write that leaves every cell a getter reads as it was (another
\* cell, or a value equal under !==) leaves a clean getter clean, and a read
\* of a clean getter returns the cached value without invoking its
\* function; after registration every function has been invoked once.
C15_Steps ==
  /\ ev'.op = "write" =>
       \A c \in Cells, v \in CellVals \cup {NaNVal} :
         Wrote(c, v) =>
           \A g \in Getters :
             (/\ ~isDirty[g]
              /\ c \notin TransReads(g, state) \/ ~StrictNotEqual(v, state[c]))
               => ~isDirty'[g]
  /\ \A g \in Getters :
       (Read(g) /\ ~isDirty[g]) => (calls' = calls /\ value'[g] = value[g])
  /\ calls' # calls => ev'.op = "read"

C15_CallCount ==
  /\ [](\A g \in Getters : calls[g] >= 1)
  /\ [][C15_Steps]_vars

\* C16: a write only sets the dirty flag of the getters recorded in the
\* cell's dependency set and invokes no getter function; a function is
\* invoked only by a read, at most once per read and only when the getter
\* is dirty, and the read leaves the getter clean: however many writes
\* happen between two reads, the function runs at most once, on the read.
C16_Steps ==
  /\ (calls' # calls \/ value' # value) => ev'.op = "read"
  /\ ev'.op = "write" =>
       \A c \in Cells, v \in CellVals \cup {NaNVal} :
         Wrote(c, v) =>
           \A g \in Getters :
             isDirty'[g] =
               (isDirty[g] \/ (g \in deps[c] /\ StrictNotEqual(v, state[c])))
  /\ ev'.op = "read" =>
       /\ state' = state /\ deps' = deps
       /\ \A g \in Getters :
            /\ calls'[g] <= calls[g] + 1
            /\ calls'[g] # calls[g] => (isDirty[g] /\ ~isDirty'[g])
            /\ isDirty'[g] => isDirty[g]
            /\ Read(g) =>
                 /\ ~isDirty'[g]
                 /\ isDirty[g] <=> calls'[g] = calls[g] + 1
                 /\ isDirty[g] => value'[g] = GetterFn(g, state, value')

C16_LazyAtMostOnce == [][C16_Steps]_vars

\* a was written up to 2 in steps of one, then the getter was read: its
\* function has run once since registration
C16_Witness ==
  /\ ev.op = "read" /\ ev.x = Str("state")
  /\ state["a"] = 2 /\ state["b"] = 2
  /\ calls["state"] = 2 /\ value["state"] = "hasAny"
  /\ ~isDirty["state"]

\* C17: a write that changes a cell a getter reads, directly or through
\* another getter, makes the getter dirty; its next read invokes its
\* function once and returns the value computed from the new state.
C17_Steps ==
  /\ ev'.op = "write" =>
       \A c \in Cells, v \in CellVals \cup {NaNVal} :
         Wrote(c, v) =>
           \A g \in Getters :
             (c \in TransReads(g, state) /\ StrictNotEqual(v, state[c]))
               => isDirty'[g]
  /\ \A g \in Getters :
       Read(g) => (value'[g] = Fresh(g, state) /\ calls'[g] <= calls[g] + 1)

C17_TransitiveInvalidation == [][C17_Steps]_vars

\* C18: a recomputation records the getter in the dependency set of every
\* cell it reads, so a later change of such a cell marks the getter dirty.
C18_Steps ==
  /\ ev'.op = "read" =>
       \A g \in Getters :
         calls'[g] # calls[g] =>
           \A c \in GetterReads(g, state) : g \in deps'[c]
  /\ ev'.op = "write" =>
       \A c \in Cells, v \in CellVals \cup {NaNVal} :
         Wrote(c, v) =>
           \A g \in Getters :
             (c \in GetterReads(g, state) /\ StrictNotEqual(v, state[c]))
               => isDirty'[g]

C18_DepsRecollected == [][C18_Steps]_vars

\* C19: the cached value of a getter that is not dirty equals what the
\* getter of store.ts, which evaluates the function on every read, returns
\* in the same state.
C19_CacheValid ==
  \A g \in Getters : ~isDirty[g] => value[g] = Fresh(g, state)

\* C20: nothing is rolled back when a mutation handler throws.  Every write
\* of the handler succeeds and marks the getters of the cell's dependency
\* set dirty; the throw and the unwinding change no cell, no dirty flag and
\* no cached value; the error leaves commit with the caller on top of the
\* stack; a later read of a dirty getter evaluates it on the state as the
\* handler left it.
C20_Steps ==
  /\ (exc # "none" \/ exc' # "none") =>
       (state' = state /\ isDirty' = isDirty /\ value' = value)
  /\ (exc # "none" /\ TopKind = "mutation" /\ stack' # stack) =>
       /\ exc' = exc
       /\ stack' = SubSeq(stack, 1, Len(stack) - 2)
  /\ (TopKind = "mutation" /\ ev'.op = "write") =>
       /\ ev'.ok
       /\ \A c \in Cells :
            state'[c] # state[c] => \A g \in deps[c] : isDirty'[g]
  /\ \A g \in Getters :
       (Read(g) /\ isDirty[g]) => value'[g] = GetterFn(g, state, value')

HasCommit == \E i \in 1..Len(stack) : stack[i].kind = "commit"

\* the lowest frame of a commit on the stack
FirstCommit ==
  CHOOSE i \in 1..Len(stack) :
    /\ stack[i].kind = "commit"
    /\ \A j \in 1..(i - 1) : stack[j].kind # "commit"

\* C13: commits do not interleave.  A callback or continuation of an action
\* is started by the event loop only with an empty call stack, so its frame
\* is the lowest one and at most one runs; while a commit is on the stack
\* no promise is made, started or resolved and the frames below the commit
\* (the code that called it) do not move; the commit leaves the stack only
\* by returning, with every subscriber of its snapshot called.
C13_Frames ==
  /\ \A i \in 1..Len(stack) : IsTask(stack[i]) => i = 1
  /\ Cardinality(Running) <= 1
  /\ IF stack = <<>> THEN Running = {}
     ELSE (Running # {}) = IsTask(stack[1])
  /\ \A i \in 1..Len(stack) :
       stack[i].kind \in {"commit", "sub", "mutation"} =>
         (Running # {} /\ i > 1)

C13_Steps ==
  /\ ev'.op = "task" =>
       /\ stack = <<>> /\ exc = "none" /\ ~isCommitting
       /\ Len(stack') = 1
  /\ HasCommit =>
       /\ promises' = promises
       /\ \A i \in 1..(FirstCommit - 1) :
            i <= Len(stack') /\ stack'[i] = stack[i]
       /\ Len(stack') < FirstCommit =>
            /\ ev'.op = "commitReturn"
            /\ Top.kind = "commit" /\ Top.queue = <<>>
            /\ Top.notified = Snapshot(Top)
  /\ promises' # promises => (~HasCommit /\ exc = "none")

C13_CommitsDoNotInterleave == [](C13_Frames) /\ [][C13_Steps]_vars

\* the commit of one timer callback has called s1 and not yet s2 while the
\* timer callback of a second action in flight is ready to run
C13_Witness ==
  /\ Len(stack) = 3 /\ IsTask(stack[1])
  /\ stack[2].kind = "commit"
  /\ stack[2].notified = <<"s1">> /\ stack[2].queue = <<"s2">>
  /\ stack[3].kind = "sub"
  /\ \E p \in 1..Len(promises) :
       promises[p].st = "pending" /\ promises[p].waits = 0

RECURSIVE SumN(_)
\* what the commits of the callbacks of the promises in S add to cell a
SumN(S) ==
  IF S = {} THEN 0
  ELSE LET p == CHOOSE x \in S : TRUE
       IN promises[p].n + SumN(S \ {p})

\* the promises whose callback has committed
Committed ==
  {p \in 1..Len(promises) :
     \/ promises[p].st = "resolved"
     \/ promises[p].st = "running" /\ (Len(stack) > 1 \/ ev.op # "task")}

\* C14: the continuation of an action that awaits a nested dispatch starts
\* only after the nested action's awaitable has resolved, which happens
\* only after the nested action's commit has returned, so that commit is in
\* the state the continuation sees; the awaitable of the outer dispatch
\* resolves only after the continuation's own commit has returned.  Cell a
\* holds, at every moment, what the commits made so far have added.
C14_State ==
  /\ state["a"] = SumN(Committed)
  /\ \A p \in 1..Len(promises) :
       /\ promises[p].waits < p
       /\ (promises[p].kind = "await") = (promises[p].waits # 0)
       /\ (promises[p].waits # 0 /\ promises[p].st # "pending") =>
            /\ promises[promises[p].waits].st = "resolved"
            /\ state["a"] >= promises[promises[p].waits].n

C14_Steps ==
  /\ ev'.op = "task" =>
       LET p == ev'.x.n
       IN promises[p].waits # 0 =>
            /\ promises[promises[p].waits].st = "resolved"
            /\ state["a"] >= promises[promises[p].waits].n
  /\ ev'.op = "resolve" =>
       /\ ev.op = "commitReturn"
       /\ Len(stack) = 1 /\ stack' = <<>>
       /\ \A p \in Running :
            /\ promises'[p].st = "resolved"
            /\ state["a"] >= promises[p].n
                  + (IF promises[p].waits = 0 THEN 0
                     ELSE promises[promises[p].waits].n)
  /\ \A p \in 1..Len(promises) :
       promises'[p].st # promises[p].st =>
         \/ promises[p].st = "pending" /\ ev'.op = "task"
         \/ promises[p].st = "running" /\ ev'.op = "resolve"

C14_AwaitOrder == [](C14_State) /\ [][C14_Steps]_vars

\* dispatch("two", 1) from a = 0: the promise of the nested TEST and then
\* the promise of two have resolved, and a holds both commits
C14_Witness ==
  /\ Len(promises) = 2
  /\ promises[1].kind = "timer" /\ promises[1].st = "resolved"
  /\ promises[2].kind = "await" /\ promises[2].waits = 1
  /\ promises[2].st = "resolved"
  /\ ev.op = "resolve" /\ stack = <<>>
  /\ state["a"] = 2

\* ------------------------------------------------- object-style arguments
\* C21: an object first argument carrying a string type field, the empty
\* string included, is taken as the payload and its type field names the
\* handler: commit and dispatch never reject it with the type error, and
\* commit({type: X, amount: n}) with a handler registered under X that adds
\* payload.amount adds n to state.a.
C21_StringTypeFieldAccepted ==
  [][(/\ ev'.op \in {"commit", "dispatch"}
      /\ isObject(ev'.x) /\ ev'.x.ft = "string")
       => /\ exc' # "TypeError"
          /\ (/\ ev'.op = "commit"
              /\ ev'.x.fs \in MutationNames
              /\ MutationBody(ev'.x.fs) = "addAmount")
               => /\ ev'.ok
                  /\ stack' # <<>> /\ stack'[Len(stack')].payload = ev'.x
                  /\ state'["a"] = Plus(state["a"], Num(ev'.x.n))]_vars

\* ------------------------------------------------------ nested state trees
\* the values found at key path p of an initial state value (none or one)
RECURSIVE Lookup(_, _)
Lookup(val, p) ==
  IF p = <<>> THEN {val}
  ELSE UNION {Lookup(e.val, Tail(p)) : e \in {e \in val.kids : e.key = Head(p)}}

\* every key path an explored initial state can have
KeyPaths == UNION {[1..n -> {"x", "y", "0"}] : n \in 1..(MaxNest + 2)}

\* the slots of the input that are not inside an array
Slots(obj) ==
  {p \in KeyPaths :
     /\ Lookup(obj, p) # {}
     /\ \A i \in 0..(Len(p) - 1) :
          \A v \in Lookup(obj, SubSeq(p, 1, i)) : ~isArray(v)}

\* the keys of the tree under the slot at path p (the root for <<>>)
KeysUnder(p) ==
  {q[Len(q)] : q \in {q \in DOMAIN state : Len(q) = Len(p) + 1 /\ IsPrefix(p, q)}}

\* the path the getter g read when it was registered
ReadPath(g) ==
  LET read == {p \in DOMAIN deps : g \in deps[p]}
  IN IF read = {} THEN <<>>
     ELSE CHOOSE p \in read : \A q \in read : Len(q) <= Len(p)

\* C22: the state tree has a cell for every slot of the initial state at
\* every depth, arrays excepted: right after construction its slots are the
\* slots of the input that are not inside an array, the key set under every
\* nested object equals the key set of that object, a number or null is
\* held as it is, and an array is held as one opaque value with no slot
\* below it.  Every slot has its dependency set, and the key sets never
\* change afterwards.  An assignment to a slot of any depth fails when
\* strict is set, the profile is not production and no commit is running,
\* and changes nothing; an assignment that succeeds with another value marks
\* every getter that read the slot dirty, so a clean getter's cached value
\* is the content of the slot it read.
C22_Tree ==
  /\ DOMAIN deps = DOMAIN state
  /\ ev.op = "new" =>
       /\ DOMAIN state = Slots(ev.x)
       /\ KeysUnder(<<>>) = {e.key : e \in ev.x.kids}
       /\ \A p \in DOMAIN state : \A v \in Lookup(ev.x, p) :
            CASE isArray(v) ->
                   /\ state[p] = ArrVal
                   /\ KeysUnder(p) = {}
              [] isObject(v) ->
                   /\ state[p] = NodeVal
                   /\ KeysUnder(p) = {e.key : e \in v.kids}
              [] v.k = "null" -> state[p] = NullVal /\ KeysUnder(p) = {}
              [] OTHER -> state[p] = v.n /\ KeysUnder(p) = {}
  /\ \A g \in DOMAIN isDirty :
       (~isDirty[g] /\ ReadPath(g) # <<>>) => value[g] = state[ReadPath(g)]

C22_Steps ==
  /\ DOMAIN state' = DOMAIN state
  /\ deps' = deps
  /\ ev'.op = "write" =>
       \A p \in DOMAIN state, v \in LeafNums :
         (Reachable(p) /\ DirectWrite(p, v)) =>
           IF strict /\ notProduction /\ ~isCommitting
             THEN /\ exc' = "OutsideMutation" /\ ~ev'.ok
                  /\ state' = state /\ isDirty' = isDirty
             ELSE /\ ev'.ok /\ state'[p] = v
                  /\ \A q \in DOMAIN state \ {p} : state'[q] = state[q]
                  /\ v # state[p] => \A g \in deps[p] : isDirty'[g]

C22_EveryLevelWrapped == [](C22_Tree) /\ [][C22_Steps]_vars

\* under strict in a test profile the handler of a commit has assigned 1 to
\* state.x.y, which the getter read, and a later assignment by external
\* code has failed
C22_Witness ==
  /\ strict /\ notProduction /\ stack = <<>> /\ ~isCommitting
  /\ <<"x", "y">> \in DOMAIN state /\ state[<<"x", "y">>] = 1
  /\ "leaf" \in deps[<<"x", "y">>] /\ isDirty["leaf"]
  /\ ev.op = "write" /\ ~ev.ok /\ exc = "OutsideMutation"

\* ---------------------------------------------------- nested notification
\* C23: a subscriber receives the mutation records in the order in which
\* the handlers ran: while a function is being called for a commit made by
\* a subscriber callback, no commit further out, whose handler ran before,
\* still has that function waiting in its snapshot.
C23_RecordsInHandlerOrder ==
  \A i \in 1..Len(stack) :
    stack[i].kind = "sub" =>
      \A k \in 1..(i - 2) :
        (stack[k].kind = "commit" /\ stack[k].pc = "notify")
          => ~Contains(stack[k].queue, stack[i].fn)

\* C24: under strict in a non-production profile the write guard is false
\* while a subscriber callback runs, whoever issued the commit, so a direct
\* assignment by the callback would fail.
C24_GuardFalseInSubscriber ==
  (strict /\ notProduction /\ TopKind = "sub" /\ exc = "none")
    => (~isCommitting /\ SetterThrows(isCommitting))

\* C25: a subscriber callback that throws ends its commit: the error leaves
\* the callback and the commit together and is pending in the code that
\* called commit, the functions still waiting in the snapshot are never
\* called for that commit, and neither the throw nor its propagation
\* changes a cell, the subscriber set or the write guard, just as a return
\* of the callback changes none of them.
C25_Steps ==
  /\ (exc' # "none" /\ TopKind = "sub") =>
       /\ subscribers' = subscribers /\ handles' = handles
       /\ exc # "none" =>
            /\ Caller.kind = "commit" /\ Caller.pc = "notify"
            /\ stack' = SubSeq(stack, 1, Len(stack) - 2)
            /\ exc' = exc
            /\ state' = state /\ isCommitting' = isCommitting
       /\ exc' = "UserError" =>
            /\ state' = state /\ isCommitting' = isCommitting
            /\ exc = "none" => stack' = stack
  /\ (exc' = "none" /\ TopKind = "sub" /\ Len(stack') < Len(stack)) =>
       /\ exc = "none"
       /\ state' = state /\ isCommitting' = isCommitting
       /\ subscribers' = subscribers

C25_ThrowingSubscriber == [][C25_Steps]_vars

\* s1, the first of the snapshot <<s1, s2>>, has thrown after the handler
\* changed state.a; s2 is still waiting
C25_Witness ==
  /\ TopKind = "sub" /\ Top.fn = "s1" /\ exc = "UserError"
  /\ Len(stack) = 2 /\ Caller.queue = <<"s2">>
  /\ state["a"] = 1 /\ ~isCommitting
  /\ subscribers = <<"s1", "s2">>

\* ------------------------------------------------- subscribers form a set
\* how often x occurs in a sequence
Count(seq, x) == Cardinality({i \in 1..Len(seq) : seq[i] = x})

\* C26: the subscribers are a set of functions.  However many times a
\* function was subscribed, it is in the set once, in the snapshot of a
\* commit once, and called once for a commit that returns; calling an
\* unsubscribe function of fn takes fn out of the set whatever the number
\* of unsubscribe functions handed out for it, which stay as they are, and
\* a commit that starts notifying afterwards does not call fn.
C26_Set ==
  /\ \A fn \in Subs : Count(subscribers, fn) <= 1
  /\ \A i \in 1..Len(stack) :
       (stack[i].kind = "commit" /\ stack[i].pc = "notify") =>
         \A fn \in Subs : Count(Snapshot(stack[i]), fn) <= 1

C26_Steps ==
  /\ (ev'.op = "step" /\ stack' = stack) =>
       \A fn \in Subs :
         /\ Subscribe(fn) =>
              /\ Count(subscribers', fn) = 1
              /\ Cardinality(HandlesOf(fn)') = Cardinality(HandlesOf(fn)) + 1
              /\ Contains(subscribers, fn) => subscribers' = subscribers
         /\ Unsubscribe(fn) =>
              /\ Count(subscribers', fn) = 0
              /\ HandlesOf(fn)' = HandlesOf(fn)
  /\ \A i \in 1..Len(stack') :
       IF i <= Len(stack) /\ stack'[i] = stack[i]
       THEN TRUE
       ELSE /\ (/\ stack'[i].kind = "commit" /\ stack'[i].pc = "notify"
                /\ (i > Len(stack) \/ stack[i].pc # "notify"))
                 => \A fn \in Subs :
                      Count(stack'[i].queue, fn) = Count(subscribers, fn)
            /\ (stack'[i].kind = "sub" /\ i > Len(stack))
                 => Count(stack'[i - 1].notified, stack'[i].fn) = 1
  /\ ev'.op = "commitReturn" =>
       \A fn \in Subs : Count(Top.notified, fn) = Count(Snapshot(Top), fn)

C26_SubscribersAreASet == [](C26_Set) /\ [][C26_Steps]_vars

\* s1 has been subscribed twice; a first commit called s1 and s2 once each;
\* s2, in its callback, called one unsubscribe function of s1 and committed:
\* the second commit has called s2 only
C26_Witness ==
  /\ Len(stack) = 3
  /\ stack[1].kind = "commit" /\ stack[1].notified = <<"s1", "s2">>
  /\ stack[2].kind = "sub" /\ stack[2].fn = "s2"
  /\ stack[3].kind = "commit" /\ stack[3].pc = "notify"
  /\ stack[3].notified = <<"s2">> /\ stack[3].queue = <<>>
  /\ Cardinality(HandlesOf("s1")) = 2
  /\ subscribers = <<"s2">>

=============================================================================
